---------------------------- MODULE Spec2Model ----------------------------
(***************************************************************************)
(* The campfire-companion frontend API client (frontend/src/api/client.js  *)
(* and its successive revisions): request construction, the process-wide   *)
(* auth token, and response handling, as a state machine over async calls. *)
(*                                                                         *)
(* A call of a client operation runs synchronously up to its first await   *)
(* (the request is built and fetch is issued), is resumed when fetch       *)
(* settles, and - unless it has already settled - once more when the body  *)
(* read (response.json() / response.text()) completes.                     *)
(***************************************************************************)
EXTENDS Naturals, Sequences, FiniteSets, Bags

VARIABLES
    rev,            \* which revision of the client module is loaded
    authToken,      \* part_001:55   let authToken = null
    lastTokenCall,  \* history: the most recent setAuthToken/clearAuthToken call
    calls,          \* bag of the calls of client operations made so far
    isMounted,      \* App.jsx:66   let isMounted = true (the App is mounted)
    health,         \* App.jsx:41   useState: the health card
    healthCall,     \* App.jsx:67   the promise of getHealth()
    forms,          \* App.jsx:47-63  eventState, clubState, tokenState
    inputs,         \* App.jsx:46-58  eventRef, clubLookup, tokenInput
    requests        \* per form, the promise its last submit awaits

clientVars == <<rev, authToken, lastTokenCall, calls>>
appVars == <<isMounted, health, healthCall, forms, inputs, requests>>
vars == <<rev, authToken, lastTokenCall, calls,
          isMounted, health, healthCall, forms, inputs, requests>>

\* Number of client operation calls a behaviour makes.
MaxCalls == 2

-----------------------------------------------------------------------------
(* JavaScript values.  A scalar is a record [kind, str, num]; a parsed JSON *)
(* body is a value [kind, str, num, detail] whose detail is the scalar held *)
(* by its "detail" property (Undefined when it has none).                   *)

Undefined == [kind |-> "undefined", str |-> "", num |-> 0]
JsNull    == [kind |-> "null", str |-> "", num |-> 0]
JsStr(s)  == [kind |-> "string", str |-> s, num |-> 0]
JsNum(n)  == [kind |-> "number", str |-> "", num |-> n]
JsBool(b) == [kind |-> "boolean", str |-> "", num |-> IF b THEN 1 ELSE 0]
JsObj     == [kind |-> "object", str |-> "", num |-> 0]

\* A parsed JSON value: scalar fields plus the value of its detail property.
JsonValue(scalar, detail) ==
    [kind |-> scalar.kind, str |-> scalar.str, num |-> scalar.num, detail |-> detail]

\* ECMAScript ToBoolean, as used by `if (authToken)`, `if (query)`, `!text`.
Truthy(v) ==
    CASE v.kind = "undefined" -> FALSE
      [] v.kind = "null"      -> FALSE
      [] v.kind = "string"    -> v.str # ""
      [] v.kind = "number"    -> v.num # 0
      [] v.kind = "boolean"   -> v.num = 1
      [] OTHER                -> TRUE

\* v ?? d : d exactly when v is null or undefined.
Nullish(v) == v.kind \in {"null", "undefined"}
\* v || d, had the handler been written with it
LogicalOr(v, d) == IF Truthy(v) THEN v ELSE d
Coalesce(v, d) == IF Nullish(v) THEN d ELSE v

DigitChar(d) ==
    CASE d = 0 -> "0" [] d = 1 -> "1" [] d = 2 -> "2" [] d = 3 -> "3"
      [] d = 4 -> "4" [] d = 5 -> "5" [] d = 6 -> "6" [] d = 7 -> "7"
      [] d = 8 -> "8" [] OTHER -> "9"

RECURSIVE NumToString(_)
NumToString(n) ==
    IF n < 10 THEN DigitChar(n)
    ELSE NumToString(n \div 10) \o DigitChar(n % 10)

\* ECMAScript ToString, as applied by `new Error(message)`, template
\* literals and URLSearchParams.set.
JsToString(v) ==
    CASE v.kind = "string"    -> v.str
      [] v.kind = "number"    -> NumToString(v.num)
      [] v.kind = "boolean"   -> IF v.num = 1 THEN "true" ELSE "false"
      [] v.kind = "null"      -> "null"
      [] v.kind = "undefined" -> "undefined"
      [] OTHER                -> "[object Object]"

\* errorPayload?.detail : undefined for null/undefined and for values with
\* no such property (strings, numbers, objects without it).
OptDetail(v) == IF v.kind = "object" THEN v.detail ELSE Undefined

-----------------------------------------------------------------------------
(* Response bodies and JSON.parse.                                         *)

BodyTexts ==
    { "", "<html>Bad Gateway</html>", "{}", "null", "\"gone\"",
      "{\"detail\":\"Not found\"}", "{\"detail\":\"\"}", "{\"detail\":null}",
      "{\"detail\":404}", "{\"detail\":false}", "{\"detail\":{}}" }

\* JSON.parse(text): [ok |-> FALSE] is a thrown SyntaxError.
JSONparse(text) ==
    LET ok(v) == [ok |-> TRUE, value |-> v]
        obj(d) == ok(JsonValue(JsObj, d))
    IN  CASE text = "{}"                          -> obj(Undefined)
          [] text = "null"                        -> ok(JsonValue(JsNull, Undefined))
          [] text = "\"gone\""                    -> ok(JsonValue(JsStr("gone"), Undefined))
          [] text = "{\"detail\":\"Not found\"}"  -> obj(JsStr("Not found"))
          [] text = "{\"detail\":\"\"}"           -> obj(JsStr(""))
          [] text = "{\"detail\":null}"           -> obj(JsNull)
          [] text = "{\"detail\":404}"            -> obj(JsNum(404))
          [] text = "{\"detail\":false}"          -> obj(JsBool(FALSE))
          [] text = "{\"detail\":{}}"             -> obj(JsObj)
          [] OTHER -> [ok |-> FALSE, value |-> JsonValue(Undefined, Undefined)]

StatusCodes == {200, 201, 204, 404, 500}

\* Response.ok
ResponseOk(response) == response.status >= 200 /\ response.status <= 299

Responses == [status : StatusCodes, body : BodyTexts]
NoResponse == [status |-> 0, body |-> ""]

-----------------------------------------------------------------------------
(* The revisions of the client module and the operations each exports.     *)

RevHealth == "client.js"       \* frontend/src/api/client.js: getHealth alone
RevBasic  == "part_000"        \* + importCampfireEvent, lookupCampfireClub({id, url})
RevQuery  == "part_001:1-50"   \* + storeCampfireToken, lookupCampfireClub({query, id, url})
RevAuth   == "part_001:52-193" \* + auth token, account operations

Revisions == {RevHealth, RevBasic, RevQuery, RevAuth}

OpsOf(r) ==
    CASE r = RevHealth -> {"getHealth"}
      [] r = RevBasic  -> {"getHealth", "importCampfireEvent", "lookupCampfireClub"}
      [] r = RevQuery  -> {"getHealth", "importCampfireEvent", "storeCampfireToken",
                           "lookupCampfireClub"}
      [] OTHER         -> {"getHealth", "importCampfireEvent", "storeCampfireToken",
                           "importCampfireClubHistory", "lookupCampfireClub",
                           "registerUser", "loginUser", "logoutUser",
                           "linkCampfireAccount", "unlinkCampfireAccount"}

API_BASE_URL == "http://127.0.0.1:8000/api"

-----------------------------------------------------------------------------
(* Request construction.  Headers are a set of <<name, value>> pairs.      *)

NoHeaders   == {}
JsonHeaders == {<<"Content-Type", "application/json">>}

HeaderNames(headers) == {h[1] : h \in headers}
HasHeader(headers, name) == name \in HeaderNames(headers)
HeaderValue(headers, name) == (CHOOSE h \in headers : h[1] = name)[2]

\* { ...headers, [name]: value }
SpreadWith(headers, name, value) ==
    {h \in headers : h[1] # name} \cup {<<name, value>>}

withAuth(headers, token) ==
    IF Truthy(token)
    THEN SpreadWith(headers, "Authorization", "Token " \o JsToString(token))
    ELSE headers

\* URLSearchParams: a sequence of <<name, value>> pairs.
NoParams == << >>

\* URLSearchParams.prototype.set on a list that does not hold the name yet
\* (every use in the client): the value is converted to a string and the
\* pair appended.
ParamsSet(params, name, value) == Append(params, <<name, JsToString(value)>>)

ParamNames(params) == {params[i][1] : i \in DOMAIN params}

\* URLSearchParams.prototype.toString: name=value pairs joined by "&".
\* The argument values of the model hold unreserved characters only, which
\* the form-urlencoded serializer leaves as they are.
RECURSIVE ParamsToString(_)
ParamsToString(params) ==
    IF params = << >> THEN ""
    ELSE LET first == params[1][1] \o "=" \o params[1][2]
         IN  IF Len(params) = 1 THEN first
             ELSE first \o "&" \o ParamsToString(Tail(params))

Request(method, url, params, headers) ==
    [method |-> method, url |-> url, params |-> params, headers |-> headers]

\* Arguments of lookupCampfireClub; the other operations' arguments only
\* fill the request body, which no property here reads.
LookupArgs(query, id, url) == [query |-> query, id |-> id, url |-> url]
NoArgs == LookupArgs(Undefined, Undefined, Undefined)

LookupPath == API_BASE_URL \o "/campfire/clubs/lookup/"

\* part_000: lookupCampfireClub({ id, url })
lookupCampfireClubBasic(args) ==
    LET p1 == IF Truthy(args.id) THEN ParamsSet(NoParams, "id", args.id) ELSE NoParams
        p2 == IF Truthy(args.url) THEN ParamsSet(p1, "url", args.url) ELSE p1
    IN  Request("GET", LookupPath \o "?" \o ParamsToString(p2), p2, NoHeaders)

\* part_001: the parameters of lookupCampfireClub({ query, id, url })
lookupParams(args) ==
    IF Truthy(args.query)
    THEN ParamsSet(NoParams, "club", args.query)
    ELSE LET p1 == IF Truthy(args.id) THEN ParamsSet(NoParams, "id", args.id)
                   ELSE NoParams
         IN  IF Truthy(args.url) THEN ParamsSet(p1, "url", args.url) ELSE p1

\* part_001: const target = qs ? `...lookup/?${qs}` : `...lookup/`
lookupTarget(qs) ==
    IF Truthy(JsStr(qs)) THEN LookupPath \o "?" \o qs ELSE LookupPath

\* part_001: lookupCampfireClub; fetch(target) in the revision without a
\* token, fetch(target, { headers: withAuth() }) in the one with it.
lookupCampfireClub(r, args, token) ==
    LET params == lookupParams(args)
    IN  Request("GET", lookupTarget(ParamsToString(params)), params,
                IF r = RevAuth THEN withAuth(NoHeaders, token) ELSE NoHeaders)

\* POST/DELETE with headers: withAuth({ "Content-Type": "application/json" })
\* (part_001:99-127, 166-192); plain JSON headers before the token existed.
AuthedJson(r, method, path, token) ==
    Request(method, API_BASE_URL \o path, NoParams,
            IF r = RevAuth THEN withAuth(JsonHeaders, token) ELSE JsonHeaders)

\* registerUser/loginUser had they been written with withAuth like the rest
PlainJsonWithAuth(method, path) ==
    Request(method, API_BASE_URL \o path, NoParams, withAuth(JsonHeaders, authToken))

\* POST with headers: { "Content-Type": "application/json" } (part_001:148-164)
PlainJson(method, path) ==
    Request(method, API_BASE_URL \o path, NoParams, JsonHeaders)

\* The request each operation hands to fetch.
BuildRequest(r, op, args, token) ==
    CASE op = "getHealth" ->
            Request("GET", API_BASE_URL \o "/health/", NoParams, NoHeaders)
      [] op = "importCampfireEvent" ->
            AuthedJson(r, "POST", "/campfire/events/import/", token)
      [] op = "storeCampfireToken" ->
            AuthedJson(r, "POST", "/campfire/tokens/", token)
      [] op = "importCampfireClubHistory" ->
            AuthedJson(r, "POST", "/campfire/clubs/import-history/", token)
      [] op = "lookupCampfireClub" ->
            IF r = RevBasic THEN lookupCampfireClubBasic(args)
            ELSE lookupCampfireClub(r, args, token)
      [] op = "registerUser" -> PlainJson("POST", "/auth/register/")
      [] op = "loginUser"    -> PlainJson("POST", "/auth/login/")
      [] op = "logoutUser"   -> AuthedJson(r, "POST", "/auth/logout/", token)
      [] op = "linkCampfireAccount" ->
            AuthedJson(r, "POST", "/auth/campfire/", token)
      [] OTHER \* unlinkCampfireAccount
            -> AuthedJson(r, "DELETE", "/auth/campfire/", token)

-----------------------------------------------------------------------------
(* Response handling.  An outcome is how the promise of a call settles.    *)

NoValue == JsonValue(Undefined, Undefined)
NoError == [name |-> "", message |-> ""]
Pending == [state |-> "pending", value |-> NoValue, error |-> NoError]
Resolved(v) == [state |-> "resolved", value |-> v, error |-> NoError]
Rejected(name, message) ==
    [state |-> "rejected", value |-> NoValue,
     error |-> [name |-> name, message |-> message]]

ResolvedNull == Resolved(JsonValue(JsNull, Undefined))
\* What JSON.parse / response.json() throw on a body that is not JSON.
ParseError == Rejected("SyntaxError", "Unexpected token or end of JSON input")
\* What fetch rejects with when the request fails at transport level.
TransportError == Rejected("TypeError", "Failed to fetch")

\* error?.detail ?? "<fallback>": client.js has its own text.
Fallback(r) ==
    IF r = RevHealth THEN "Unable to reach backend" ELSE "Request failed"

\* The !response.ok branch without the catch around response.json()
ErrorBodyOutcomeNoCatch(body, fallback) ==
    LET parsed == JSONparse(body)
    IN  IF parsed.ok
        THEN Rejected("Error",
                 JsToString(Coalesce(OptDetail(parsed.value), JsStr(fallback))))
        ELSE ParseError

\* The !response.ok branch once the body read has finished:
\*   errorPayload = await response.json(), {} when that throws;
\*   throw new Error(errorPayload?.detail ?? fallback)
ErrorBodyOutcome(body, fallback) ==
    LET parsed == JSONparse(body)
        errorPayload == IF parsed.ok THEN parsed.value
                        ELSE JsonValue(JsObj, Undefined)
    IN  Rejected("Error",
                 JsToString(Coalesce(OptDetail(errorPayload), JsStr(fallback))))

\* return response.json() of the revisions before the token
JsonBodyOutcome(body) ==
    LET parsed == JSONparse(body)
    IN  IF parsed.ok THEN Resolved(parsed.value) ELSE ParseError

\* The success branch with the parse failure caught and turned into null
TextBodyOutcomeLenient(body) ==
    LET parsed == JSONparse(body)
    IN  IF parsed.ok THEN Resolved(parsed.value) ELSE ResolvedNull

\* part_001:79-83  text = await response.text(); if (!text) return null;
\*                 return JSON.parse(text)
TextBodyOutcome(body) ==
    IF ~Truthy(JsStr(body)) THEN ResolvedNull
    ELSE LET parsed == JSONparse(body)
         IN  IF parsed.ok THEN Resolved(parsed.value) ELSE ParseError

\* handleResponse of part_001:64-84 up to its first await: where the call
\* waits next, or how it settles at once.
handleResponse(response) ==
    IF ~ResponseOk(response) THEN [pc |-> "errorJson", outcome |-> Pending]
    ELSE IF response.status = 204 THEN [pc |-> "settled", outcome |-> ResolvedNull]
    ELSE [pc |-> "text", outcome |-> Pending]

\* handleResponse of part_000 and part_001:4-10, and the body of getHealth
\* in client.js, up to the first await.
handleResponseJson(response) ==
    IF ~ResponseOk(response) THEN [pc |-> "errorJson", outcome |-> Pending]
    ELSE [pc |-> "json", outcome |-> Pending]

\* The body read a call waits for has completed.
BodyOutcome(r, pc, response) ==
    CASE pc = "errorJson" -> ErrorBodyOutcome(response.body, Fallback(r))
      [] pc = "text"      -> TextBodyOutcome(response.body)
      [] OTHER            -> JsonBodyOutcome(response.body)

-----------------------------------------------------------------------------
(* Calls and actions.                                                      *)

Call(op, args, request) ==
    [op |-> op, args |-> args, request |-> request, pc |-> "fetch",
     response |-> NoResponse, outcome |-> Pending, sent |-> 1, bodyReads |-> 0]

Calls == BagToSet(calls)
Replace(c, d) == (calls (-) SetToBag({c})) (+) SetToBag({d})

NoTokenCall == [kind |-> "none", token |-> JsNull]

\* The three forms of App.
FormNames == {"event", "club", "token"}

NullValue == JsonValue(JsNull, Undefined)
\* No submit yet: the form awaits no promise.
NoPromise == [state |-> "none", value |-> NoValue, error |-> NoError]

\* App.jsx:47-63  useState({ loading: false, data: null, error: null })
InitialForm == [loading |-> FALSE, data |-> NullValue, error |-> JsNull]
\* App.jsx:41-45
InitialHealth ==
    [loading |-> TRUE, message |-> "Checking backend...", error |-> JsNull]

\* App after its first render and its mount effect: getHealth() is pending.
AppMounted ==
    /\ isMounted = TRUE
    /\ health = InitialHealth
    /\ healthCall = Pending
    /\ forms = [f \in FormNames |-> InitialForm]
    /\ inputs = [f \in FormNames |-> ""]
    /\ requests = [f \in FormNames |-> NoPromise]

Init ==
    /\ rev \in Revisions
    /\ authToken = JsNull
    /\ lastTokenCall = NoTokenCall
    /\ calls = EmptyBag
    /\ AppMounted

\* setAuthToken keeping a token that is already set
setAuthTokenOnce(token) ==
    /\ rev = RevAuth
    /\ authToken' = IF Truthy(authToken) THEN authToken ELSE token
    /\ lastTokenCall' = [kind |-> "set", token |-> token]
    /\ UNCHANGED <<rev, calls>>
    /\ UNCHANGED appVars

\* setAuthToken with the requests in flight reading the token when sent
setAuthTokenLive(token) ==
    /\ rev = RevAuth
    /\ authToken' = token
    /\ lastTokenCall' = [kind |-> "set", token |-> token]
    /\ calls' = BagOfAll(LAMBDA c :
                   IF c.pc = "fetch"
                   THEN [c EXCEPT !.request.headers =
                            BuildRequest(rev, c.op, c.args, token).headers]
                   ELSE c, calls)
    /\ UNCHANGED rev
    /\ UNCHANGED appVars

\* part_001:86-88
setAuthToken(token) ==
    /\ rev = RevAuth
    /\ authToken' = token
    /\ lastTokenCall' = [kind |-> "set", token |-> token]
    /\ UNCHANGED <<rev, calls>>
    /\ UNCHANGED appVars

\* part_001:90-92
clearAuthToken ==
    /\ rev = RevAuth
    /\ authToken' = JsNull
    /\ lastTokenCall' = [kind |-> "clear", token |-> JsNull]
    /\ UNCHANGED <<rev, calls>>
    /\ UNCHANGED appVars

\* An operation is called: it builds its request, hands it to fetch and
\* awaits the response.
Invoke(op, args) ==
    /\ op \in OpsOf(rev)
    /\ calls' = calls (+) SetToBag({Call(op, args, BuildRequest(rev, op, args, authToken))})
    /\ UNCHANGED <<rev, authToken, lastTokenCall>>
    /\ UNCHANGED appVars

\* fetch resolves with a response: handleResponse runs to its first await.
FetchResolve(c, response) ==
    /\ c.pc = "fetch"
    /\ LET h == IF rev = RevAuth THEN handleResponse(response)
                ELSE handleResponseJson(response)
       IN  calls' = Replace(c, [c EXCEPT !.response = response, !.pc = h.pc,
                                         !.outcome = h.outcome])
    /\ UNCHANGED <<rev, authToken, lastTokenCall>>
    /\ UNCHANGED appVars

\* fetch rejects and the operation issues the request once more
FetchRejectRetry(c) ==
    /\ c.pc = "fetch"
    /\ calls' = Replace(c, [c EXCEPT !.sent = c.sent + 1])
    /\ c.sent < 2
    /\ UNCHANGED <<rev, authToken, lastTokenCall>>
    /\ UNCHANGED appVars

\* fetch rejects: the await throws and the operation rejects with it.
FetchReject(c) ==
    /\ c.pc = "fetch"
    /\ calls' = Replace(c, [c EXCEPT !.pc = "settled", !.outcome = TransportError])
    /\ UNCHANGED <<rev, authToken, lastTokenCall>>
    /\ UNCHANGED appVars

\* response.json() / response.text() completes: the operation settles.
BodyRead(c) ==
    /\ c.pc \in {"errorJson", "text", "json"}
    /\ calls' = Replace(c, [c EXCEPT !.pc = "settled",
                                     !.outcome = BodyOutcome(rev, c.pc, c.response),
                                     !.bodyReads = c.bodyReads + 1])
    /\ UNCHANGED <<rev, authToken, lastTokenCall>>
    /\ UNCHANGED appVars

-----------------------------------------------------------------------------
(* Spec: concurrent calls racing with token changes.                       *)

SpecTokens == {JsStr("abc")}
SpecArgs(op) ==
    IF op = "lookupCampfireClub"
    THEN {LookupArgs(JsStr("foo"), Undefined, Undefined)}
    ELSE {NoArgs}
SpecResponses ==
    { [status |-> 200, body |-> "{}"],
      [status |-> 404, body |-> "{\"detail\":\"Not found\"}"] }

Next ==
    \/ \E op \in OpsOf(rev) : \E args \in SpecArgs(op) :
          BagCardinality(calls) < MaxCalls /\ Invoke(op, args)
    \/ \E c \in Calls : \E response \in SpecResponses : FetchResolve(c, response)
    \/ \E c \in Calls : FetchReject(c)
    \/ \E c \in Calls : BodyRead(c)
    \/ \E token \in SpecTokens : setAuthToken(token)
    \/ clearAuthToken

Spec == Init /\ [][Next]_vars

-----------------------------------------------------------------------------
(* SpecSeq: one call at a time, over every argument, token and response.   *)

SeqTokens == {JsStr(""), JsStr("abc"), JsStr("xyz")}
ArgValues(text) == {Undefined, JsStr(""), JsStr(text)}
SeqArgs(op) ==
    IF op = "lookupCampfireClub"
    THEN {LookupArgs(q, i, u) : q \in ArgValues("foo"), i \in ArgValues("b632fc8e"),
                                u \in ArgValues("cmpf.re")}
    ELSE {NoArgs}

NextSeq ==
    \/ \E op \in OpsOf(rev) : \E args \in SeqArgs(op) :
          calls = EmptyBag /\ Invoke(op, args)
    \/ \E c \in Calls : \E response \in Responses : FetchResolve(c, response)
    \/ \E c \in Calls : FetchReject(c)
    \/ \E c \in Calls : BodyRead(c)
    \/ \E token \in SeqTokens : setAuthToken(token)
    \/ clearAuthToken

SpecSeq == Init /\ [][NextSeq]_vars

-----------------------------------------------------------------------------
(* Properties.                                                             *)

\* The operations the specification marks as authenticated, and the rest.
AuthenticatedOps ==
    {"importCampfireClubHistory", "logoutUser", "linkCampfireAccount",
     "unlinkCampfireAccount"}
UnauthenticatedOps ==
    {"getHealth", "importCampfireEvent", "lookupCampfireClub",
     "storeCampfireToken", "registerUser", "loginUser"}

Auth(c) == c.request.headers
HasAuthorization(c) == HasHeader(Auth(c), "Authorization")
AuthorizationOf(c) == HeaderValue(Auth(c), "Authorization")

\* The calls a step starts: those of which the next state holds one more
\* copy waiting for fetch.
Started ==
    {c \in BagToSet(calls') : c.pc = "fetch" /\ CopiesIn(c, calls') > CopiesIn(c, calls)}

Settled(c) == c.pc = "settled"
Answered(c) == c.response # NoResponse
IsRejected(c) == c.outcome.state = "rejected"
IsResolved(c) == c.outcome.state = "resolved"

\* C1: an authenticated operation called after setAuthToken(t), t a
\* non-empty string, as the most recent token call sends Authorization =
\* "Token t"; called after clearAuthToken(), or before any setAuthToken, it
\* sends no Authorization header.
C1_AuthFollowsLatestToken ==
    [][\A c \in Started : c.op \in AuthenticatedOps =>
          /\ (lastTokenCall.kind = "set" /\ lastTokenCall.token.kind = "string"
                /\ lastTokenCall.token.str # "")
             => /\ HasAuthorization(c)
                /\ AuthorizationOf(c) = "Token " \o lastTokenCall.token.str
          /\ lastTokenCall.kind \in {"none", "clear"} => ~HasAuthorization(c)
      ]_vars

C1_Witness ==
    \E c \in Calls :
        /\ c.op \in AuthenticatedOps
        /\ lastTokenCall = [kind |-> "set", token |-> JsStr("xyz")]
        /\ HasAuthorization(c) /\ AuthorizationOf(c) = "Token xyz"

\* C2 as stated: no operation outside the authenticated ones ever sends an
\* Authorization header, whatever the token.
C2_UnauthenticatedNeverAttach ==
    \A c \in Calls : c.op \in UnauthenticatedOps => ~HasAuthorization(c)

\* C2 amended: getHealth, registerUser and loginUser never send an
\* Authorization header; importCampfireEvent, storeCampfireToken and
\* lookupCampfireClub send "Token <token>" exactly when the client revision
\* holds a token and it is set (truthy) at the call, and none otherwise.
C2_OnlyPlainOpsNeverAttach ==
    [][\A c \in Started :
          /\ c.op \in {"getHealth", "registerUser", "loginUser"} => ~HasAuthorization(c)
          /\ c.op \in {"importCampfireEvent", "storeCampfireToken", "lookupCampfireClub"}
             => /\ HasAuthorization(c) <=> (rev = RevAuth /\ Truthy(authToken))
                /\ HasAuthorization(c) => AuthorizationOf(c) = "Token " \o authToken.str
      ]_vars

C2_Witness ==
    /\ \E c \in Calls : c.op = "lookupCampfireClub" /\ HasAuthorization(c)
                        /\ AuthorizationOf(c) = "Token abc"
    /\ authToken = JsStr("abc")

\* What fetch was handed for a call: it is fixed when the call starts.
Sent(c) == <<c.op, c.args, c.request>>

\* C3: the Authorization header of a request is the one built from the token
\* at the moment of the call; a later setAuthToken/clearAuthToken changes no
\* request already handed to fetch and no call's state or result.
C3_TokenReadAtCall ==
    [][/\ \A c \in Started :
             HasAuthorization(c) => AuthorizationOf(c) = "Token " \o authToken.str
       /\ BagOfAll(Sent, calls) \sqsubseteq BagOfAll(Sent, calls')
       /\ authToken' # authToken => calls' = calls
      ]_vars

C3_Witness ==
    \E c \in Calls :
        /\ c.pc \in {"fetch", "text", "errorJson"}
        /\ HasAuthorization(c) /\ AuthorizationOf(c) = "Token abc"
        /\ authToken = JsNull

\* A settled call answered with a failure status whose body is a JSON object
\* with a detail property.
DetailOf(c) == OptDetail(JSONparse(c.response.body).value)
FailedWithDetail(c) ==
    /\ Settled(c) /\ Answered(c) /\ ~ResponseOk(c.response)
    /\ JSONparse(c.response.body).ok
    /\ DetailOf(c) # Undefined

\* C4 as stated: the error's message equals the detail value, whatever value
\* detail holds (null and non-strings included).
C4_MessageEqualsDetail ==
    \A c \in Calls : FailedWithDetail(c) =>
        IsRejected(c) /\ JsStr(c.outcome.error.message) = DetailOf(c)

\* C4 amended: the operation rejects with an Error whose message is detail
\* itself when detail is a string (the empty string included), the
\* operation's fallback message when detail is null, and the string
\* conversion of detail ("404", "false", "[object Object]") otherwise.
C4_MessageFromDetail ==
    \A c \in Calls : FailedWithDetail(c) =>
        /\ IsRejected(c) /\ c.outcome.error.name = "Error"
        /\ DetailOf(c).kind = "string" => c.outcome.error.message = DetailOf(c).str
        /\ DetailOf(c).kind = "null" => c.outcome.error.message = Fallback(rev)
        /\ DetailOf(c) = JsNum(404) => c.outcome.error.message = "404"
        /\ DetailOf(c) = JsBool(FALSE) => c.outcome.error.message = "false"
        /\ DetailOf(c).kind = "object" => c.outcome.error.message = "[object Object]"

C4_Witness ==
    /\ \E c \in Calls : FailedWithDetail(c) /\ DetailOf(c) = JsNull
                        /\ c.outcome.error.message = "Request failed"
    /\ rev = RevAuth

\* C5: a failure status with an empty or non-JSON body rejects with the
\* fallback message ("Request failed"; "Unable to reach backend" for the
\* getHealth of client.js), never with the parse failure.
C5_FallbackOnUnparseableError ==
    \A c \in Calls :
        (Settled(c) /\ Answered(c) /\ ~ResponseOk(c.response)
            /\ ~JSONparse(c.response.body).ok)
        => /\ IsRejected(c)
           /\ c.outcome.error.name = "Error"
           /\ c.outcome.error.message =
                 (IF c.op = "getHealth" /\ rev = RevHealth
                  THEN "Unable to reach backend" ELSE "Request failed")

C5_Witness ==
    /\ \E c \in Calls : /\ Settled(c) /\ c.response.status = 500
                        /\ c.response.body = "<html>Bad Gateway</html>"
                        /\ c.outcome.error.message = "Unable to reach backend"
    /\ rev = RevHealth

\* C6: for every operation a 204 resolves to null without its body being
\* read, and a 2xx with an empty body resolves to null.
C6_NoContentResolvesNull ==
    \A c \in Calls :
        (Settled(c) /\ Answered(c) /\ ResponseOk(c.response)) =>
            /\ c.response.status = 204 => c.outcome = ResolvedNull /\ c.bodyReads = 0
            /\ c.response.body = "" => c.outcome = ResolvedNull

\* C7: a 2xx other than 204 whose body is non-empty and not JSON rejects;
\* it resolves to nothing.
C7_MalformedSuccessRejects ==
    \A c \in Calls :
        (Settled(c) /\ Answered(c) /\ ResponseOk(c.response)
            /\ c.response.status # 204 /\ c.response.body # ""
            /\ ~JSONparse(c.response.body).ok)
        => IsRejected(c) /\ ~IsResolved(c)

C7_Witness ==
    /\ \E c \in Calls : /\ Settled(c) /\ c.response.status = 200
                        /\ c.response.body = "<html>Bad Gateway</html>"
                        /\ c.outcome = ParseError
    /\ rev = RevAuth

IsLookup(c) == c.op = "lookupCampfireClub"

\* C8: with a non-empty query the request carries the single parameter
\* club = query, and neither id nor url.
C8_QueryPriority ==
    \A c \in Calls : (IsLookup(c) /\ Truthy(c.args.query)) =>
        c.request.params = << <<"club", c.args.query.str>> >>

\* C9: with no parameter to send the request goes to the bare lookup path,
\* no "?"; without a query, id and url are each sent exactly when non-empty.
C9_QueryStringOnlyWhenNeeded ==
    \A c \in Calls : IsLookup(c) =>
        /\ (~Truthy(c.args.query) /\ ~Truthy(c.args.id) /\ ~Truthy(c.args.url))
           => c.request.url = LookupPath
        /\ ~Truthy(c.args.query) =>
             /\ "id" \in ParamNames(c.request.params) <=> Truthy(c.args.id)
             /\ "url" \in ParamNames(c.request.params) <=> Truthy(c.args.url)
             /\ "club" \notin ParamNames(c.request.params)

\* C10: every call issues one request and settles once: a settled call is
\* never resumed, changed or dropped, no step but the call itself issues a
\* request, and a transport failure, a failure status and a malformed body
\* all end in a rejection.
C10_OneRequestOneSettlement ==
    [][/\ \A c \in BagToSet(calls') :
             /\ c.sent = 1
             /\ Settled(c) <=> c.outcome.state # "pending"
             /\ (Settled(c) /\ (~Answered(c) \/ ~ResponseOk(c.response)))
                => IsRejected(c)
       /\ \A c \in Calls : Settled(c) => CopiesIn(c, calls') >= CopiesIn(c, calls)
       /\ BagCardinality(calls') \in {BagCardinality(calls), BagCardinality(calls) + 1}
      ]_vars

C10_Witness ==
    /\ \E c \in Calls : Settled(c) /\ c.outcome = TransportError /\ c.sent = 1
    /\ \E c \in Calls : /\ Settled(c) /\ Answered(c) /\ ~ResponseOk(c.response)
                        /\ IsRejected(c) /\ c.sent = 1 /\ c.bodyReads = 1

-----------------------------------------------------------------------------
(* App (frontend/src/App.jsx): the three forms and the health card.  A     *)
(* setter of useState is the assignment it makes.  The operation a handler *)
(* awaits settles in any way the client's response handling can settle.    *)

\* The client revisions exporting what App imports (App.jsx:3-8).
AppRevisions == {RevQuery, RevAuth}

\* String.prototype.trim on the texts typed into the forms.
Trim(text) ==
    CASE text = " "     -> ""
      [] text = " 123 " -> "123"
      [] OTHER          -> text

InputTexts == {" ", " 123 "}

\* App.jsx:151, 238, 330
ValidationMessage(f) ==
    CASE f = "event" -> "Please enter an event URL or ID."
      [] f = "club"  -> "Enter a club reference."
      [] OTHER       -> "Enter a token."

AppResponses ==
    { [status |-> 200, body |-> "{}"],
      [status |-> 404, body |-> "{\"detail\":\"Not found\"}"] }

\* How a client operation settles once fetch has answered with response.
SettleOutcome(r, response) ==
    LET h == IF r = RevAuth THEN handleResponse(response)
             ELSE handleResponseJson(response)
    IN  IF h.pc = "settled" THEN h.outcome ELSE BodyOutcome(r, h.pc, response)

\* The ways the promise of a client operation can settle.
AppOutcomes == {TransportError} \cup {SettleOutcome(rev, r) : r \in AppResponses}

\* onChange: setEventRef / setClubLookup / setTokenInput (App.jsx:174, 258, 349)
Type(f, text) ==
    /\ isMounted
    /\ inputs' = [inputs EXCEPT ![f] = text]
    /\ UNCHANGED <<isMounted, health, healthCall, forms, requests>>
    /\ UNCHANGED clientVars

\* onSubmit with the error of the last attempt left in place
SubmitKeepsError(f) ==
    /\ isMounted
    /\ ~forms[f].loading
    /\ IF ~Truthy(JsStr(Trim(inputs[f])))
       THEN /\ forms' = [forms EXCEPT ![f].error = JsStr(ValidationMessage(f))]
            /\ UNCHANGED requests
       ELSE /\ forms' = [forms EXCEPT ![f].loading = TRUE, ![f].data = NullValue]
            /\ requests' = [requests EXCEPT ![f] = Pending]
    /\ UNCHANGED <<isMounted, health, healthCall, inputs>>
    /\ UNCHANGED clientVars

\* onSubmit (App.jsx:146-157, 233-246, 325-336) up to its await.  The submit
\* button is disabled while the form is loading (App.jsx:177, 262, 353).
Submit(f) ==
    /\ isMounted
    /\ ~forms[f].loading
    /\ IF ~Truthy(JsStr(Trim(inputs[f])))
       THEN /\ forms' = [forms EXCEPT ![f].error = JsStr(ValidationMessage(f))]
            /\ UNCHANGED requests
       ELSE /\ forms' = [forms EXCEPT ![f] =
                           [loading |-> TRUE, data |-> NullValue, error |-> JsNull]]
            /\ requests' = [requests EXCEPT ![f] = Pending]
    /\ UNCHANGED <<isMounted, health, healthCall, inputs>>
    /\ UNCHANGED clientVars

\* The awaited operation settles and onSubmit resumes
\* (App.jsx:158-165, 247-250, 337-341).
FormSettle(f, outcome) ==
    /\ requests[f] = Pending
    /\ requests' = [requests EXCEPT ![f] = outcome]
    /\ IF outcome.state = "resolved"
       THEN /\ forms' = [forms EXCEPT ![f] =
                           [loading |-> FALSE, data |-> outcome.value, error |-> JsNull]]
            /\ inputs' = IF f = "token" THEN [inputs EXCEPT ![f] = ""] ELSE inputs
       ELSE /\ forms' = [forms EXCEPT ![f] =
                           [loading |-> FALSE, data |-> NullValue,
                            error |-> JsStr(outcome.error.message)]]
            /\ UNCHANGED inputs
    /\ UNCHANGED <<isMounted, health, healthCall>>
    /\ UNCHANGED clientVars

\* data?.status of the parsed bodies of the model, none of which holds a
\* status property.
OptStatus(v) == Undefined

\* The then/catch of getHealth() with no isMounted check
HealthSettleUnguarded(outcome) ==
    /\ healthCall = Pending
    /\ healthCall' = outcome
    /\ health' = IF outcome.state = "resolved"
                 THEN [loading |-> FALSE,
                       message |-> JsToString(Coalesce(OptStatus(outcome.value), JsStr("ok"))),
                       error |-> JsNull]
                 ELSE [loading |-> FALSE, message |-> outcome.error.message,
                       error |-> JsBool(TRUE)]
    /\ UNCHANGED <<isMounted, forms, inputs, requests>>
    /\ UNCHANGED clientVars

\* getHealth() settles: the then/catch of the mount effect (App.jsx:67-83).
HealthSettle(outcome) ==
    /\ healthCall = Pending
    /\ healthCall' = outcome
    /\ IF ~isMounted THEN UNCHANGED health
       ELSE health' =
              IF outcome.state = "resolved"
              THEN [loading |-> FALSE,
                    message |-> JsToString(Coalesce(OptStatus(outcome.value), JsStr("ok"))),
                    error |-> JsNull]
              ELSE [loading |-> FALSE, message |-> outcome.error.message,
                    error |-> JsBool(TRUE)]
    /\ UNCHANGED <<isMounted, forms, inputs, requests>>
    /\ UNCHANGED clientVars

\* The cleanup of the mount effect (App.jsx:85-87): App unmounts.
Unmount ==
    /\ isMounted
    /\ isMounted' = FALSE
    /\ UNCHANGED <<health, healthCall, forms, inputs, requests>>
    /\ UNCHANGED clientVars

\* App.jsx:90-93
statusChip ==
    IF health.loading THEN "Connecting..."
    ELSE IF Truthy(health.error) THEN "API offline" ELSE "API online"

InitApp == Init /\ rev \in AppRevisions

NextApp ==
    \/ \E f \in FormNames : \E text \in InputTexts : Type(f, text)
    \/ \E f \in FormNames : Submit(f)
    \/ \E f \in FormNames : \E outcome \in AppOutcomes : FormSettle(f, outcome)
    \/ \E outcome \in AppOutcomes : HealthSettle(outcome)
    \/ Unmount

SpecApp == InitApp /\ [][NextApp]_vars

\* C11: in each form loading implies data = null and error = null; loading
\* is true exactly while the request of a non-blank submit is pending; the
\* settle sets loading = false with data = the result and error = null, or
\* data = null and error = the rejection's message.
C11_FormLoadingLifecycle ==
    [][\A f \in FormNames :
          /\ forms'[f].loading => forms'[f].data = NullValue /\ forms'[f].error = JsNull
          /\ forms'[f].loading <=> requests'[f] = Pending
          /\ (requests[f] # Pending /\ requests'[f] = Pending)
             => ~forms[f].loading /\ Truthy(JsStr(Trim(inputs[f])))
          /\ (requests[f] = Pending /\ requests'[f] # Pending) =>
                /\ ~forms'[f].loading
                /\ requests'[f].state = "resolved"
                   => forms'[f].data = requests'[f].value /\ forms'[f].error = JsNull
                /\ requests'[f].state = "rejected"
                   => /\ forms'[f].data = NullValue
                      /\ forms'[f].error = JsStr(requests'[f].error.message)
                /\ requests'[f].state \in {"resolved", "rejected"}
      ]_vars

C11_Witness ==
    /\ forms["event"].loading /\ requests["event"] = Pending
    /\ ~forms["club"].loading /\ requests["club"].state = "rejected"
    /\ forms["club"].error = JsStr("Not found")
    /\ ~forms["token"].loading /\ requests["token"].state = "resolved"
    /\ forms["token"].data = JsonValue(JsObj, Undefined)

\* C12: a settlement of getHealth that arrives after unmount leaves health
\* unchanged (nothing updates health once unmounted); a settlement that
\* arrives while mounted sets loading = false with error = null on success
\* and error = true on failure; once false, loading never becomes true again.
C12_HealthNotUpdatedAfterUnmount ==
    [][/\ ~isMounted => health' = health
       /\ (isMounted /\ healthCall = Pending /\ healthCall' # Pending) =>
             /\ ~health'.loading
             /\ healthCall'.state = "resolved" => health'.error = JsNull
             /\ healthCall'.state = "rejected" => health'.error = JsBool(TRUE)
             /\ healthCall'.state \in {"resolved", "rejected"}
       /\ ~health.loading => ~health'.loading
       /\ statusChip # "Connecting..." => statusChip' # "Connecting..."
      ]_vars

C12_Witness ==
    /\ ~isMounted
    /\ healthCall.state \in {"resolved", "rejected"}
    /\ health = InitialHealth
    /\ statusChip = "Connecting..."

=============================================================================
